---------------------------- MODULE Spec2Model ----------------------------
(***************************************************************************)
(* A model of the recipe parser and transformer (main.py, recipe.py,       *)
(* util.py).  Strings are sequences of one-character strings, so that      *)
(* substring tests, word splitting, case folding and word-boundary regex   *)
(* matching are computed the way the Python code computes them.            *)
(* Fractions are pairs <<numerator, denominator>> in lowest terms, as      *)
(* fractions.Fraction keeps them.  Objects that the code shares or copies   *)
(* live in a heap of ids, so that aliasing and deep copies are told apart.  *)
(***************************************************************************)
EXTENDS Integers, Sequences, FiniteSets, TLC

VARIABLES
    name1, name2,      \* the two labels handed to match_score
    score12, score21,  \* match_score(name1, name2) and match_score(name2, name1)
    heap,              \* object id -> object (Ingredient, Step, set, dict)
    recipe,            \* the global Recipe of main.py: fields hold ids or values
    xpc,               \* position of update_methods_and_ingredients
    xstep,             \* index i of the step being processed (0-based)
    xcand,             \* the Ingredient parsed from the current noun chunk
    xind,              \* what find_ingredient returned for it
    xerr,              \* the exception that left update_methods_and_ingredients
    transformed,       \* the Recipe the last handle_transformation built
    lastTrans,         \* the Transformation it was called with
    recipe0,           \* the source recipe's contents when the menu loop began
    tagged,            \* the tagged tokens of the line handed to from_str
    called,            \* from_str has returned
    parsed,            \* what it returned
    qin,               \* the quantity text handed to str_to_fraction
    qfrac,             \* the Fraction it returned
    qout,              \* fraction_to_str of that Fraction
    subTrans,          \* the Transformation whose table substitute_text applies
    subIn,             \* the text handed to substitute_text
    subOut             \* the text it returned

scoreVars == <<name1, name2, score12, score21>>
heapVars == <<heap, recipe>>
xrefVars == <<xpc, xstep, xcand, xind, xerr>>
transVars == <<transformed, lastTrans, recipe0>>
parseVars == <<tagged, called, parsed>>
fracVars == <<qin, qfrac, qout>>
substVars == <<subTrans, subIn, subOut>>
vars == <<name1, name2, score12, score21, heap, recipe,
          xpc, xstep, xcand, xind, xerr, transformed, lastTrans, recipe0,
          tagged, called, parsed, qin, qfrac, qout,
          subTrans, subIn, subOut>>

\* what each part of the program leaves alone
notScore == <<heapVars, xrefVars, transVars, parseVars, fracVars, substVars>>
notXref == <<scoreVars, transVars, parseVars, fracVars, substVars>>
notTrans == <<scoreVars, xrefVars, parseVars, fracVars, substVars>>
notParse == <<scoreVars, heapVars, xrefVars, transVars, fracVars, substVars>>
notFrac == <<scoreVars, heapVars, xrefVars, transVars, parseVars, substVars>>
notSubst == <<scoreVars, heapVars, xrefVars, transVars, parseVars, fracVars>>

\* Python's None, for each kind of value that may be absent
NoneId == 0                    \* a reference (object ids start at 1)
NoneFrac == <<>>               \* a Fraction | None
NoneStr == <<"None">>          \* a str | None (no one-character string)
NoneIngr == [type |-> "None"]  \* an Ingredient | None held by value

(***************************************************************************)
(* Bounds of the model.                                                    *)
(***************************************************************************)
MaxNameLen == 3
MaxIngr == 3
MaxSteps == 2

-----------------------------------------------------------------------------
(***************************************************************************)
(* fractions.Fraction                                                      *)
(***************************************************************************)
Abs(n) == IF n < 0 THEN -n ELSE n

RECURSIVE GCD(_, _)
GCD(a, b) == IF b = 0 THEN a ELSE GCD(b, a % b)

Frac(n, d) ==
    LET g == GCD(Abs(n), Abs(d))
        s == IF d < 0 THEN -1 ELSE 1
    IN  <<(s * n) \div g, (s * d) \div g>>

FracMul(f, g) == Frac(f[1] * g[1], f[2] * g[2])
FracAdd(f, g) == Frac(f[1] * g[2] + g[1] * f[2], f[2] * g[2])
FracGT(f, g) == f[1] * g[2] > g[1] * f[2]

-----------------------------------------------------------------------------
(***************************************************************************)
(* Python str operations on character sequences.                           *)
(***************************************************************************)
Str(S, n) == UNION {[1..k -> S] : k \in 0..n}

Range(s) == {s[k] : k \in 1..Len(s)}

Upper == <<"A","B","C","D","E","F","G","H","I","J","K","L","M",
           "N","O","P","Q","R","S","T","U","V","W","X","Y","Z">>
Lower == <<"a","b","c","d","e","f","g","h","i","j","k","l","m",
           "n","o","p","q","r","s","t","u","v","w","x","y","z">>

Digits == {"0", "1", "2", "3", "4", "5", "6", "7", "8", "9"}

\* the lower-case letter of each upper-case letter
LowerOf == [c \in Range(Upper) |-> Lower[CHOOSE k \in 1..26 : Upper[k] = c]]

LowerChar(c) == IF c \in DOMAIN LowerOf THEN LowerOf[c] ELSE c

\* str.lower()
StrLower(s) == [k \in 1..Len(s) |-> LowerChar(s[k])]

\* `a in b` for strings: a occurs in b as a contiguous substring
Contains(b, a) ==
    \E p \in 1..(Len(b) - Len(a) + 1) : SubSeq(b, p, p + Len(a) - 1) = a

IsSpace(c) == c = " "

\* str.split(): the maximal runs of non-whitespace characters, in order
RECURSIVE SplitFrom(_, _, _)
SplitFrom(s, p, cur) ==
    IF p > Len(s)
    THEN IF cur = <<>> THEN <<>> ELSE <<cur>>
    ELSE IF IsSpace(s[p])
         THEN IF cur = <<>>
              THEN SplitFrom(s, p + 1, <<>>)
              ELSE <<cur>> \o SplitFrom(s, p + 1, <<>>)
         ELSE SplitFrom(s, p + 1, Append(cur, s[p]))

Split(s) == SplitFrom(s, 1, <<>>)

\* ' '.join([a, b])
Join2(a, b) == a \o <<" ">> \o b

Max(a, b) == IF a >= b THEN a ELSE b

-----------------------------------------------------------------------------
(***************************************************************************)
(* update_methods_and_ingredients.match_score                              *)
(***************************************************************************)
\* the loop `for wd in words1: if wd in words2: score += 1`
RECURSIVE CountIn(_, _)
CountIn(words1, words2) ==
    IF words1 = <<>> THEN 0
    ELSE (IF \E k \in 1..Len(words2) : words2[k] = Head(words1) THEN 1 ELSE 0)
         + CountIn(Tail(words1), words2)

\* match_score with the divisor max(len(words1), len(words2)), without the + 1
match_score_no_plus_one(n1, n2) ==
    IF n1 = <<>> \/ n2 = <<>> THEN Frac(0, 1)
    ELSE LET words1 == Split(StrLower(n1))
             words2 == Split(StrLower(n2))
         IN  IF n1 = n2 THEN Frac(2, 1)
             ELSE IF Contains(n2, n1) \/ Contains(n1, n2) THEN Frac(1, 1)
             ELSE Frac(CountIn(words1, words2),
                       Max(Len(words1), Len(words2)))

match_score(n1, n2) ==
    IF n1 = <<>> \/ n2 = <<>> THEN Frac(0, 1)
    ELSE LET words1 == Split(StrLower(n1))
             words2 == Split(StrLower(n2))
         IN  IF n1 = n2 THEN Frac(2, 1)
             ELSE IF Contains(n2, n1) \/ Contains(n1, n2) THEN Frac(1, 1)
             ELSE Frac(CountIn(words1, words2),
                       Max(Len(words1), Len(words2)) + 1)

\* find_ingredient's label of an Ingredient: ' '.join([descriptors, name])
Label(ingr) == Join2(ingr.descriptors, ingr.name)

(***************************************************************************)
(* update_methods_and_ingredients.find_ingredient.  ings is the sequence   *)
(* of ids recipe.ingredients; indices are Python's (0-based), -1 is "no    *)
(* match".  max_score is assigned once, before the loop.                   *)
(***************************************************************************)
RECURSIVE FindLoop(_, _, _, _, _, _)
FindLoop(h, ingr, ings, i, max_score, ingredients) ==
    IF i >= Len(ings) THEN ingredients
    ELSE IF ings[i + 1] = NoneId
         THEN FindLoop(h, ingr, ings, i + 1, max_score, ingredients)
         ELSE LET score == match_score(Label(ingr), Label(h[ings[i + 1]]))
              IN  IF FracGT(score, max_score)
                  THEN FindLoop(h, ingr, ings, i + 1, max_score, <<i>>)
                  ELSE IF score = max_score
                       THEN FindLoop(h, ingr, ings, i + 1, max_score,
                                     Append(ingredients, i))
                       ELSE FindLoop(h, ingr, ings, i + 1, max_score,
                                     ingredients)

find_ingredient(h, ings, ingr) ==
    IF ingr = NoneIngr THEN -1
    ELSE LET ingredients == FindLoop(h, ingr, ings, 0, Frac(1, 2), <<>>)
         IN  IF ingredients # <<>> THEN ingredients[1] ELSE -1

-----------------------------------------------------------------------------
(***************************************************************************)
(* recipe.py: the objects.  An Ingredient and a Step are heap objects; a   *)
(* Recipe holds the list of ingredient ids (NoneId where from_str gave     *)
(* None), the list of step ids, and the ids of its tools set, methods set  *)
(* and `other` dict.                                                       *)
(***************************************************************************)
\* Ingredient.__init__ followed by the assignments of name and descriptors
Ingredient(descriptors, name, quantity) ==
    [type |-> "Ingredient", name |-> name, quantity |-> quantity,
     unit |-> NoneStr, descriptors |-> descriptors, preparation |-> <<>>,
     used |-> {}]

\* Step.__init__
Step(text) ==
    [type |-> "Step", text |-> text, ingredients |-> <<>>, tools |-> {},
     methods |-> {}, times |-> <<>>, temps |-> <<>>]

SetObj(elems) == [type |-> "set", elems |-> elems]
DictObj(map) == [type |-> "dict", map |-> map]

\* the number of entries of s before position i (inclusive) that are objects
Rank(s, i) == Cardinality({k \in 1..i : s[k] # NoneIngr})

(***************************************************************************)
(* A Recipe as Recipe.__init__ and parse_recipe lay it out: every          *)
(* ingredient and step a fresh object, three fresh containers.  Gives the  *)
(* heap and the Recipe record.                                             *)
(***************************************************************************)
NewRecipe(title, ingrs, steps, tools, methods, other) ==
    LET objs == SelectSeq(ingrs, LAMBDA x : x # NoneIngr) \o steps
                \o <<SetObj(tools), SetObj(methods), DictObj(other)>>
        ni == Len(objs) - Len(steps) - 3
        ns == Len(steps)
    IN  [heap |-> [k \in 1..Len(objs) |-> objs[k]],
         recipe |-> [title |-> title,
                     ingredients |->
                        [i \in 1..Len(ingrs) |->
                            IF ingrs[i] = NoneIngr THEN NoneId
                            ELSE Rank(ingrs, i)],
                     steps |-> [j \in 1..ns |-> ni + j],
                     tools |-> ni + ns + 1,
                     methods |-> ni + ns + 2,
                     other |-> ni + ns + 3]]

\* the smallest n ids not in use
RECURSIVE FreshIds(_, _, _)
FreshIds(used, n, from) ==
    IF n = 0 THEN <<>>
    ELSE IF from \in used THEN FreshIds(used, n, from + 1)
         ELSE <<from>> \o FreshIds(used \cup {from}, n - 1, from + 1)

-----------------------------------------------------------------------------
(***************************************************************************)
(* Values the other groups of variables hold while one part of the program *)
(* is exercised on its own.                                                *)
(***************************************************************************)
EmptyRecipe == NewRecipe(<<>>, <<>>, <<>>, {}, {}, <<>>)

IdleScore == name1 = <<>> /\ name2 = <<>> /\ score12 = NoneFrac /\ score21 = NoneFrac
IdleHeap == heap = EmptyRecipe.heap /\ recipe = EmptyRecipe.recipe
NoRecipe ==
    [title |-> <<>>, ingredients |-> <<>>, steps |-> <<>>,
     tools |-> NoneId, methods |-> NoneId, other |-> NoneId]

\* a Recipe's title and the contents of its ingredient and step lists
Contents(h, r) ==
    [title |-> r.title,
     ingredients |-> [i \in 1..Len(r.ingredients) |->
                        IF r.ingredients[i] = NoneId THEN NoneIngr
                        ELSE h[r.ingredients[i]]],
     steps |-> [j \in 1..Len(r.steps) |-> h[r.steps[j]]]]

IdleTrans ==
    /\ transformed = NoRecipe /\ lastTrans = "none"
    /\ recipe0 = Contents(EmptyRecipe.heap, EmptyRecipe.recipe)
IdleParse == tagged = <<>> /\ called = FALSE /\ parsed = NoneIngr
IdleXref == xpc = "idle" /\ xstep = 0 /\ xcand = NoneIngr /\ xind = -1 /\ xerr = "none"
IdleFrac == qin = <<>> /\ qfrac = NoneFrac /\ qout = NoneStr
IdleSubst == subTrans = "none" /\ subIn = <<>> /\ subOut = NoneStr

-----------------------------------------------------------------------------
(***************************************************************************)
(* match_score on its own: every pair of labels over a small alphabet      *)
(* (two words, an upper-case letter, the space), scored in both orders.    *)
(***************************************************************************)
NameChars == {"a", "A", "b", " "}

InitScore ==
    /\ name1 \in Str(NameChars, MaxNameLen)
    /\ name2 \in Str(NameChars, MaxNameLen)
    /\ score12 = NoneFrac /\ score21 = NoneFrac
    /\ IdleHeap /\ IdleXref /\ IdleTrans /\ IdleParse /\ IdleFrac /\ IdleSubst

CallMatchScore ==
    /\ score12 = NoneFrac
    /\ score12' = match_score(name1, name2)
    /\ UNCHANGED <<name1, name2, score21, notScore>>

CallMatchScoreSwapped ==
    /\ score21 = NoneFrac
    /\ score21' = match_score(name2, name1)
    /\ UNCHANGED <<name1, name2, score12, notScore>>

NextScore == CallMatchScore \/ CallMatchScoreSwapped

SpecScore == InitScore /\ [][NextScore]_vars

-----------------------------------------------------------------------------
(***************************************************************************)
(* update_methods_and_ingredients, one loop iteration at a time.  The      *)
(* NLP engine and WordNet are outside the program: the method verbs of a   *)
(* step and the Ingredient parsed from each of its noun chunks are inputs. *)
(***************************************************************************)
sa == <<"a">>
sA == <<"A">>
sb == <<"b">>
sab == <<"a", " ", "b">>
sba == <<"b", " ", "a">>
smix == <<"m", "i", "x">>

\* parsed ingredients: labels " a", " A", " a b", " b a" and "b a"
XrefPool ==
    {Ingredient(<<>>, sa, NoneFrac), Ingredient(<<>>, sA, NoneFrac),
     Ingredient(<<>>, sab, NoneFrac), Ingredient(<<>>, sba, NoneFrac),
     Ingredient(sb, sa, NoneFrac)}

MethodVerbs == {"bake", "fry"}

InitXref ==
    /\ \E ingrs \in Str(XrefPool \cup {NoneIngr}, MaxIngr), ns \in 0..MaxSteps :
          LET r == NewRecipe(<<>>, ingrs, [j \in 1..ns |-> Step(smix)], {}, {}, <<>>)
          IN  heap = r.heap /\ recipe = r.recipe
    /\ IdleScore /\ IdleXref /\ IdleTrans /\ IdleParse /\ IdleFrac /\ IdleSubst

\* line 346: recipe.methods = set(), a new set object
XrefBegin ==
    /\ xpc = "idle"
    /\ LET new == FreshIds(DOMAIN heap, 1, 1)[1]
       IN  /\ heap' = heap @@ (new :> SetObj({}))
           /\ recipe' = [recipe EXCEPT !.methods = new]
    /\ xpc' = IF Len(recipe.steps) = 0 THEN "done" ELSE "step"
    /\ UNCHANGED <<xstep, xcand, xind, xerr, notXref>>

\* lines 347-356: the verbs of step i that are a PRIMARY_METHOD
XrefStep(verbs) ==
    /\ xpc = "step"
    /\ LET sid == recipe.steps[xstep + 1]
       IN  heap' = [heap EXCEPT
                      ![sid].methods = @ \cup verbs,
                      ![recipe.methods].elems = @ \cup verbs]
    /\ xpc' = "chunks"
    /\ UNCHANGED <<recipe, xstep, xcand, xind, xerr, notXref>>

\* lines 357-365: one noun chunk.  `used` is a set, and a set has no append:
\* line 363 raises AttributeError before line 365 is reached.
XrefChunk(ingr) ==
    /\ xpc = "chunks"
    /\ xcand' = ingr
    /\ xind' = find_ingredient(heap, recipe.ingredients, ingr)
    /\ IF xind' > -1
       THEN xpc' = "raised" /\ xerr' = "AttributeError"
       ELSE UNCHANGED <<xpc, xerr>>
    /\ UNCHANGED <<heap, recipe, xstep, notXref>>

\* the chunks of step i are exhausted
XrefEndStep ==
    /\ xpc = "chunks"
    /\ xstep' = xstep + 1
    /\ xpc' = IF xstep + 1 < Len(recipe.steps) THEN "step" ELSE "done"
    /\ UNCHANGED <<heap, recipe, xcand, xind, xerr, notXref>>

NextXref ==
    \/ XrefBegin
    \/ \E verbs \in SUBSET MethodVerbs : XrefStep(verbs)
    \/ \E ingr \in XrefPool \cup {NoneIngr} : XrefChunk(ingr)
    \/ XrefEndStep

SpecXref == InitXref /\ [][NextXref]_vars

-----------------------------------------------------------------------------
(***************************************************************************)
(* main.py: the substitution tables.                                       *)
(***************************************************************************)
\* main.py:40-60, in the dict's insertion order: <<key, replacement>>
VEGETARIAN_SUBSTITUTIONS ==
    <<
      \* "chicken broth" -> "vegetable broth"
      << <<"c","h","i","c","k","e","n"," ","b","r","o","t","h">>,
         <<"v","e","g","e","t","a","b","l","e"," ","b","r","o","t","h">> >>,
      \* "chicken" -> "extra-firm tofu, cubed"
      << <<"c","h","i","c","k","e","n">>,
         <<"e","x","t","r","a","-","f","i","r","m"," ","t","o","f","u",","," ","c","u","b","e","d">> >>,
      \* "sausage" -> "plant-based sausage"
      << <<"s","a","u","s","a","g","e">>,
         <<"p","l","a","n","t","-","b","a","s","e","d"," ","s","a","u","s","a","g","e">> >>,
      \* "beef" -> "mushrooms"
      << <<"b","e","e","f">>,
         <<"m","u","s","h","r","o","o","m","s">> >>,
      \* "pork" -> "tempeh"
      << <<"p","o","r","k">>,
         <<"t","e","m","p","e","h">> >>,
      \* "fish" -> "cauliflower steak"
      << <<"f","i","s","h">>,
         <<"c","a","u","l","i","f","l","o","w","e","r"," ","s","t","e","a","k">> >>,
      \* "gelatin" -> "agar-agar"
      << <<"g","e","l","a","t","i","n">>,
         <<"a","g","a","r","-","a","g","a","r">> >>,
      \* "bacon" -> "coconut bacon"
      << <<"b","a","c","o","n">>,
         <<"c","o","c","o","n","u","t"," ","b","a","c","o","n">> >>,
      \* "meatballs" -> "lentil balls"
      << <<"m","e","a","t","b","a","l","l","s">>,
         <<"l","e","n","t","i","l"," ","b","a","l","l","s">> >>,
      \* "shrimp" -> "jackfruit"
      << <<"s","h","r","i","m","p">>,
         <<"j","a","c","k","f","r","u","i","t">> >>,
      \* "mussels" -> "mushrooms"
      << <<"m","u","s","s","e","l","s">>,
         <<"m","u","s","h","r","o","o","m","s">> >>,
      \* "squid" -> "king oyster mushroom"
      << <<"s","q","u","i","d">>,
         <<"k","i","n","g"," ","o","y","s","t","e","r"," ","m","u","s","h","r","o","o","m">> >>,
      \* "bone" -> ""
      << <<"b","o","n","e">>,
         <<>> >>,
      \* "breast" -> ""
      << <<"b","r","e","a","s","t">>,
         <<>> >>,
      \* "thigh" -> ""
      << <<"t","h","i","g","h">>,
         <<>> >>,
      \* "drumstick" -> ""
      << <<"d","r","u","m","s","t","i","c","k">>,
         <<>> >>,
      \* "wing" -> ""
      << <<"w","i","n","g">>,
         <<>> >>,
      \* "rib" -> ""
      << <<"r","i","b">>,
         <<>> >>,
      \* "cutlet" -> ""
      << <<"c","u","t","l","e","t">>,
         <<>> >>
    >>

\* main.py:62-75, in the dict's insertion order: <<key, replacement>>
NON_VEGETARIAN_SUBSTITUTIONS ==
    <<
      \* "vegetable broth" -> "chicken broth"
      << <<"v","e","g","e","t","a","b","l","e"," ","b","r","o","t","h">>,
         <<"c","h","i","c","k","e","n"," ","b","r","o","t","h">> >>,
      \* "tofu" -> "chicken"
      << <<"t","o","f","u">>,
         <<"c","h","i","c","k","e","n">> >>,
      \* "black beans" -> "beef"
      << <<"b","l","a","c","k"," ","b","e","a","n","s">>,
         <<"b","e","e","f">> >>,
      \* "kidney beans" -> "pork"
      << <<"k","i","d","n","e","y"," ","b","e","a","n","s">>,
         <<"p","o","r","k">> >>,
      \* "zucchini slices" -> "fish"
      << <<"z","u","c","c","h","i","n","i"," ","s","l","i","c","e","s">>,
         <<"f","i","s","h">> >>,
      \* "agar" -> "gelatin"
      << <<"a","g","a","r">>,
         <<"g","e","l","a","t","i","n">> >>,
      \* "tempeh" -> "bacon"
      << <<"t","e","m","p","e","h">>,
         <<"b","a","c","o","n">> >>,
      \* "chickpeas" -> "shrimp"
      << <<"c","h","i","c","k","p","e","a","s">>,
         <<"s","h","r","i","m","p">> >>,
      \* "plant-based" -> ""
      << <<"p","l","a","n","t","-","b","a","s","e","d">>,
         <<>> >>,
      \* "vegetarian" -> ""
      << <<"v","e","g","e","t","a","r","i","a","n">>,
         <<>> >>,
      \* "portobello mushrooms" -> "steak"
      << <<"p","o","r","t","o","b","e","l","l","o"," ","m","u","s","h","r","o","o","m","s">>,
         <<"s","t","e","a","k">> >>,
      \* "crumbled tofu" -> "ground beef"
      << <<"c","r","u","m","b","l","e","d"," ","t","o","f","u">>,
         <<"g","r","o","u","n","d"," ","b","e","e","f">> >>
    >>

\* main.py:77-85, in the dict's insertion order: <<key, replacement>>
HEALTHY_SUBSTITUTIONS ==
    <<
      \* "butter" -> "applesauce"
      << <<"b","u","t","t","e","r">>,
         <<"a","p","p","l","e","s","a","u","c","e">> >>,
      \* "sugar" -> "honey"
      << <<"s","u","g","a","r">>,
         <<"h","o","n","e","y">> >>,
      \* "heavy cream" -> "Greek yogurt"
      << <<"h","e","a","v","y"," ","c","r","e","a","m">>,
         <<"G","r","e","e","k"," ","y","o","g","u","r","t">> >>,
      \* "salt" -> "herbs"
      << <<"s","a","l","t">>,
         <<"h","e","r","b","s">> >>,
      \* "bacon" -> "turkey bacon"
      << <<"b","a","c","o","n">>,
         <<"t","u","r","k","e","y"," ","b","a","c","o","n">> >>,
      \* "beef" -> "lean turkey"
      << <<"b","e","e","f">>,
         <<"l","e","a","n"," ","t","u","r","k","e","y">> >>,
      \* "frying" -> "baking"
      << <<"f","r","y","i","n","g">>,
         <<"b","a","k","i","n","g">> >>
    >>

\* main.py:87-95, in the dict's insertion order: <<key, replacement>>
UNHEALTHY_SUBSTITUTIONS ==
    <<
      \* "applesauce" -> "butter"
      << <<"a","p","p","l","e","s","a","u","c","e">>,
         <<"b","u","t","t","e","r">> >>,
      \* "honey" -> "sugar"
      << <<"h","o","n","e","y">>,
         <<"s","u","g","a","r">> >>,
      \* "Greek yogurt" -> "heavy cream"
      << <<"G","r","e","e","k"," ","y","o","g","u","r","t">>,
         <<"h","e","a","v","y"," ","c","r","e","a","m">> >>,
      \* "herbs" -> "salt"
      << <<"h","e","r","b","s">>,
         <<"s","a","l","t">> >>,
      \* "turkey bacon" -> "bacon"
      << <<"t","u","r","k","e","y"," ","b","a","c","o","n">>,
         <<"b","a","c","o","n">> >>,
      \* "lean turkey" -> "beef"
      << <<"l","e","a","n"," ","t","u","r","k","e","y">>,
         <<"b","e","e","f">> >>,
      \* "baking" -> "frying"
      << <<"b","a","k","i","n","g">>,
         <<"f","r","y","i","n","g">> >>
    >>

\* main.py:97-114, in the dict's insertion order: <<key, replacement>>
ITALIAN_SUBSTITUTIONS ==
    <<
      \* "rice" -> "risotto"
      << <<"r","i","c","e">>,
         <<"r","i","s","o","t","t","o">> >>,
      \* "bread" -> "ciabatta"
      << <<"b","r","e","a","d">>,
         <<"c","i","a","b","a","t","t","a">> >>,
      \* "tomatoes" -> "San Marzano tomatoes"
      << <<"t","o","m","a","t","o","e","s">>,
         <<"S","a","n"," ","M","a","r","z","a","n","o"," ","t","o","m","a","t","o","e","s">> >>,
      \* "onions" -> "shallots"
      << <<"o","n","i","o","n","s">>,
         <<"s","h","a","l","l","o","t","s">> >>,
      \* "vegetable oil" -> "olive oil"
      << <<"v","e","g","e","t","a","b","l","e"," ","o","i","l">>,
         <<"o","l","i","v","e"," ","o","i","l">> >>,
      \* "chicken" -> "prosciutto"
      << <<"c","h","i","c","k","e","n">>,
         <<"p","r","o","s","c","i","u","t","t","o">> >>,
      \* "ground beef" -> "Italian sausage"
      << <<"g","r","o","u","n","d"," ","b","e","e","f">>,
         <<"I","t","a","l","i","a","n"," ","s","a","u","s","a","g","e">> >>,
      \* "cheddar cheese" -> "parmesan cheese"
      << <<"c","h","e","d","d","a","r"," ","c","h","e","e","s","e">>,
         <<"p","a","r","m","e","s","a","n"," ","c","h","e","e","s","e">> >>,
      \* "cream" -> "mascarpone cheese"
      << <<"c","r","e","a","m">>,
         <<"m","a","s","c","a","r","p","o","n","e"," ","c","h","e","e","s","e">> >>,
      \* "butter" -> "extra virgin olive oil"
      << <<"b","u","t","t","e","r">>,
         <<"e","x","t","r","a"," ","v","i","r","g","i","n"," ","o","l","i","v","e"," ","o","i","l">> >>,
      \* "corn" -> "zucchini"
      << <<"c","o","r","n">>,
         <<"z","u","c","c","h","i","n","i">> >>,
      \* "herbs" -> "basil"
      << <<"h","e","r","b","s">>,
         <<"b","a","s","i","l">> >>,
      \* "potatoes" -> "polenta"
      << <<"p","o","t","a","t","o","e","s">>,
         <<"p","o","l","e","n","t","a">> >>,
      \* "spices" -> "Italian seasoning"
      << <<"s","p","i","c","e","s">>,
         <<"I","t","a","l","i","a","n"," ","s","e","a","s","o","n","i","n","g">> >>,
      \* "stock" -> "chicken stock with white wine"
      << <<"s","t","o","c","k">>,
         <<"c","h","i","c","k","e","n"," ","s","t","o","c","k"," ","w","i","t","h"," ","w","h","i","t","e"," ","w","i","n","e">> >>,
      \* "pasta" -> "spaghetti"
      << <<"p","a","s","t","a">>,
         <<"s","p","a","g","h","e","t","t","i">> >>
    >>

\* main.py:116-133, in the dict's insertion order: <<key, replacement>>
MEXICAN_SUBSTITUTIONS ==
    <<
      \* "rice" -> "Mexican rice"
      << <<"r","i","c","e">>,
         <<"M","e","x","i","c","a","n"," ","r","i","c","e">> >>,
      \* "bread" -> "corn tortillas"
      << <<"b","r","e","a","d">>,
         <<"c","o","r","n"," ","t","o","r","t","i","l","l","a","s">> >>,
      \* "tomatoes" -> "fire-roasted tomatoes"
      << <<"t","o","m","a","t","o","e","s">>,
         <<"f","i","r","e","-","r","o","a","s","t","e","d"," ","t","o","m","a","t","o","e","s">> >>,
      \* "onions" -> "white onions"
      << <<"o","n","i","o","n","s">>,
         <<"w","h","i","t","e"," ","o","n","i","o","n","s">> >>,
      \* "vegetable oil" -> "lard"
      << <<"v","e","g","e","t","a","b","l","e"," ","o","i","l">>,
         <<"l","a","r","d">> >>,
      \* "chicken" -> "shredded chicken"
      << <<"c","h","i","c","k","e","n">>,
         <<"s","h","r","e","d","d","e","d"," ","c","h","i","c","k","e","n">> >>,
      \* "ground beef" -> "chorizo"
      << <<"g","r","o","u","n","d"," ","b","e","e","f">>,
         <<"c","h","o","r","i","z","o">> >>,
      \* "cheddar cheese" -> "queso fresco"
      << <<"c","h","e","d","d","a","r"," ","c","h","e","e","s","e">>,
         <<"q","u","e","s","o"," ","f","r","e","s","c","o">> >>,
      \* "cream" -> "crema"
      << <<"c","r","e","a","m">>,
         <<"c","r","e","m","a">> >>,
      \* "butter" -> "avocado oil"
      << <<"b","u","t","t","e","r">>,
         <<"a","v","o","c","a","d","o"," ","o","i","l">> >>,
      \* "zucchini" -> "corn"
      << <<"z","u","c","c","h","i","n","i">>,
         <<"c","o","r","n">> >>,
      \* "herbs" -> "cilantro"
      << <<"h","e","r","b","s">>,
         <<"c","i","l","a","n","t","r","o">> >>,
      \* "potatoes" -> "sweet potatoes"
      << <<"p","o","t","a","t","o","e","s">>,
         <<"s","w","e","e","t"," ","p","o","t","a","t","o","e","s">> >>,
      \* "spices" -> "chili powder and cumin"
      << <<"s","p","i","c","e","s">>,
         <<"c","h","i","l","i"," ","p","o","w","d","e","r"," ","a","n","d"," ","c","u","m","i","n">> >>,
      \* "stock" -> "chicken stock with lime"
      << <<"s","t","o","c","k">>,
         <<"c","h","i","c","k","e","n"," ","s","t","o","c","k"," ","w","i","t","h"," ","l","i","m","e">> >>,
      \* "pasta" -> "tortilla strips"
      << <<"p","a","s","t","a">>,
         <<"t","o","r","t","i","l","l","a"," ","s","t","r","i","p","s">> >>
    >>

\* main.py:135-169, in the dict's insertion order: <<key, replacement>>
GLUTEN_FREE_SUBSTITUTIONS ==
    <<
      \* "flour" -> "gluten-free flour"
      << <<"f","l","o","u","r">>,
         <<"g","l","u","t","e","n","-","f","r","e","e"," ","f","l","o","u","r">> >>,
      \* "whole wheat flour" -> "almond flour"
      << <<"w","h","o","l","e"," ","w","h","e","a","t"," ","f","l","o","u","r">>,
         <<"a","l","m","o","n","d"," ","f","l","o","u","r">> >>,
      \* "all-purpose flour" -> "coconut flour"
      << <<"a","l","l","-","p","u","r","p","o","s","e"," ","f","l","o","u","r">>,
         <<"c","o","c","o","n","u","t"," ","f","l","o","u","r">> >>,
      \* "semolina" -> "cornmeal"
      << <<"s","e","m","o","l","i","n","a">>,
         <<"c","o","r","n","m","e","a","l">> >>,
      \* "spelt" -> "sorghum flour"
      << <<"s","p","e","l","t">>,
         <<"s","o","r","g","h","u","m"," ","f","l","o","u","r">> >>,
      \* "bulgur" -> "quinoa"
      << <<"b","u","l","g","u","r">>,
         <<"q","u","i","n","o","a">> >>,
      \* "couscous" -> "quinoa"
      << <<"c","o","u","s","c","o","u","s">>,
         <<"q","u","i","n","o","a">> >>,
      \* "farro" -> "millet"
      << <<"f","a","r","r","o">>,
         <<"m","i","l","l","e","t">> >>,
      \* "barley" -> "brown rice"
      << <<"b","a","r","l","e","y">>,
         <<"b","r","o","w","n"," ","r","i","c","e">> >>,
      \* "rye" -> "oats"
      << <<"r","y","e">>,
         <<"o","a","t","s">> >>,
      \* "kamut" -> "teff"
      << <<"k","a","m","u","t">>,
         <<"t","e","f","f">> >>,
      \* "bread" -> "gluten-free bread"
      << <<"b","r","e","a","d">>,
         <<"g","l","u","t","e","n","-","f","r","e","e"," ","b","r","e","a","d">> >>,
      \* "bagels" -> "gluten-free bagels"
      << <<"b","a","g","e","l","s">>,
         <<"g","l","u","t","e","n","-","f","r","e","e"," ","b","a","g","e","l","s">> >>,
      \* "crackers" -> "rice crackers"
      << <<"c","r","a","c","k","e","r","s">>,
         <<"r","i","c","e"," ","c","r","a","c","k","e","r","s">> >>,
      \* "croissants" -> "gluten-free croissants"
      << <<"c","r","o","i","s","s","a","n","t","s">>,
         <<"g","l","u","t","e","n","-","f","r","e","e"," ","c","r","o","i","s","s","a","n","t","s">> >>,
      \* "pizza crust" -> "cauliflower crust"
      << <<"p","i","z","z","a"," ","c","r","u","s","t">>,
         <<"c","a","u","l","i","f","l","o","w","e","r"," ","c","r","u","s","t">> >>,
      \* "muffins" -> "gluten-free muffins"
      << <<"m","u","f","f","i","n","s">>,
         <<"g","l","u","t","e","n","-","f","r","e","e"," ","m","u","f","f","i","n","s">> >>,
      \* "pancakes" -> "gluten-free pancakes"
      << <<"p","a","n","c","a","k","e","s">>,
         <<"g","l","u","t","e","n","-","f","r","e","e"," ","p","a","n","c","a","k","e","s">> >>,
      \* "waffles" -> "gluten-free waffles"
      << <<"w","a","f","f","l","e","s">>,
         <<"g","l","u","t","e","n","-","f","r","e","e"," ","w","a","f","f","l","e","s">> >>,
      \* "pasta" -> "gluten-free pasta"
      << <<"p","a","s","t","a">>,
         <<"g","l","u","t","e","n","-","f","r","e","e"," ","p","a","s","t","a">> >>,
      \* "spaghetti" -> "rice noodles"
      << <<"s","p","a","g","h","e","t","t","i">>,
         <<"r","i","c","e"," ","n","o","o","d","l","e","s">> >>,
      \* "lasagna sheets" -> "zucchini slices"
      << <<"l","a","s","a","g","n","a"," ","s","h","e","e","t","s">>,
         <<"z","u","c","c","h","i","n","i"," ","s","l","i","c","e","s">> >>,
      \* "beer" -> "gluten-free beer"
      << <<"b","e","e","r">>,
         <<"g","l","u","t","e","n","-","f","r","e","e"," ","b","e","e","r">> >>,
      \* "ale" -> "cider"
      << <<"a","l","e">>,
         <<"c","i","d","e","r">> >>,
      \* "breadcrumbs" -> "gluten-free breadcrumbs"
      << <<"b","r","e","a","d","c","r","u","m","b","s">>,
         <<"g","l","u","t","e","n","-","f","r","e","e"," ","b","r","e","a","d","c","r","u","m","b","s">> >>,
      \* "croutons" -> "gluten-free croutons"
      << <<"c","r","o","u","t","o","n","s">>,
         <<"g","l","u","t","e","n","-","f","r","e","e"," ","c","r","o","u","t","o","n","s">> >>,
      \* "graham crackers" -> "gluten-free graham crackers"
      << <<"g","r","a","h","a","m"," ","c","r","a","c","k","e","r","s">>,
         <<"g","l","u","t","e","n","-","f","r","e","e"," ","g","r","a","h","a","m"," ","c","r","a","c","k","e","r","s">> >>,
      \* "cookies" -> "gluten-free cookies"
      << <<"c","o","o","k","i","e","s">>,
         <<"g","l","u","t","e","n","-","f","r","e","e"," ","c","o","o","k","i","e","s">> >>,
      \* "cakes" -> "gluten-free cakes"
      << <<"c","a","k","e","s">>,
         <<"g","l","u","t","e","n","-","f","r","e","e"," ","c","a","k","e","s">> >>,
      \* "donuts" -> "gluten-free donuts"
      << <<"d","o","n","u","t","s">>,
         <<"g","l","u","t","e","n","-","f","r","e","e"," ","d","o","n","u","t","s">> >>,
      \* "cereal" -> "gluten-free cereal"
      << <<"c","e","r","e","a","l">>,
         <<"g","l","u","t","e","n","-","f","r","e","e"," ","c","e","r","e","a","l">> >>,
      \* "granola" -> "gluten-free granola"
      << <<"g","r","a","n","o","l","a">>,
         <<"g","l","u","t","e","n","-","f","r","e","e"," ","g","r","a","n","o","l","a">> >>,
      \* "oatmeal" -> "certified gluten-free oats"
      << <<"o","a","t","m","e","a","l">>,
         <<"c","e","r","t","i","f","i","e","d"," ","g","l","u","t","e","n","-","f","r","e","e"," ","o","a","t","s">> >>
    >>

\* util.py: the members of the Transformation enum, in their order
Transformations ==
    <<"TO_VEGETARIAN", "FROM_VEGETARIAN", "TO_HEALTHY", "FROM_HEALTHY",
      "DOUBLE", "HALF", "TO_ITALIAN", "TO_MEXICAN", "GLUTEN_FREE">>

\* trans.name.capitalize(): the member's name, first letter upper-case and
\* the rest lower-case
NameCapitalized ==
    [TO_VEGETARIAN |->
        <<"T", "o", "_", "v", "e", "g", "e", "t", "a", "r", "i", "a", "n">>,
     FROM_VEGETARIAN |->
        <<"F", "r", "o", "m", "_", "v", "e", "g", "e", "t", "a", "r", "i", "a", "n">>,
     TO_HEALTHY |->
        <<"T", "o", "_", "h", "e", "a", "l", "t", "h", "y">>,
     FROM_HEALTHY |->
        <<"F", "r", "o", "m", "_", "h", "e", "a", "l", "t", "h", "y">>,
     DOUBLE |->
        <<"D", "o", "u", "b", "l", "e">>,
     HALF |->
        <<"H", "a", "l", "f">>,
     TO_ITALIAN |->
        <<"T", "o", "_", "i", "t", "a", "l", "i", "a", "n">>,
     TO_MEXICAN |->
        <<"T", "o", "_", "m", "e", "x", "i", "c", "a", "n">>,
     GLUTEN_FREE |->
        <<"G", "l", "u", "t", "e", "n", "_", "f", "r", "e", "e">>]

\* get_substitutions: no member of the enum reaches the LACTOSE_FREE case,
\* and DOUBLE and HALF fall to `case _`
get_substitutions(trans) ==
    CASE trans = "TO_VEGETARIAN" -> VEGETARIAN_SUBSTITUTIONS
      [] trans = "FROM_VEGETARIAN" -> NON_VEGETARIAN_SUBSTITUTIONS
      [] trans = "TO_HEALTHY" -> HEALTHY_SUBSTITUTIONS
      [] trans = "FROM_HEALTHY" -> UNHEALTHY_SUBSTITUTIONS
      [] trans = "TO_ITALIAN" -> ITALIAN_SUBSTITUTIONS
      [] trans = "TO_MEXICAN" -> MEXICAN_SUBSTITUTIONS
      [] trans = "GLUTEN_FREE" -> GLUTEN_FREE_SUBSTITUTIONS
      [] OTHER -> <<>>

-----------------------------------------------------------------------------
(***************************************************************************)
(* re.sub(rf"\b{re.escape(original)}\b", substitute, text, IGNORECASE)     *)
(***************************************************************************)
\* the regex class \w
WordChars == Range(Upper) \cup Range(Lower) \cup Digits \cup {"_"}

IsWord(c) == c \in WordChars

\* \b before position p of t: exactly one of t[p-1], t[p] is a word character
Boundary(t, p) ==
    LET before == p > 1 /\ IsWord(t[p - 1])
        after == p <= Len(t) /\ IsWord(t[p])
    IN  before # after

\* the pattern matches t at position p; tl and kl are t and the key in
\* lower case (IGNORECASE)
MatchAt(t, tl, kl, p) ==
    /\ p + Len(kl) - 1 <= Len(t)
    /\ tl[p] = kl[1]
    /\ Boundary(t, p)
    /\ SubSeq(tl, p, p + Len(kl) - 1) = kl
    /\ Boundary(t, p + Len(kl))

\* the scan from position p on: the text up to the leftmost match at or
\* after p, the replacement, and the scan resumed after the match
RECURSIVE ReSubFrom(_, _, _, _, _)
ReSubFrom(t, tl, kl, sub, p) ==
    LET found == {q \in p..(Len(t) - Len(kl) + 1) : MatchAt(t, tl, kl, q)}
    IN  IF found = {} THEN SubSeq(t, p, Len(t))
        ELSE LET q == CHOOSE q \in found : \A r \in found : q <= r
             IN  SubSeq(t, p, q - 1) \o sub
                 \o ReSubFrom(t, tl, kl, sub, q + Len(kl))

\* every non-overlapping match, leftmost first, replaced by sub
ReSub(key, sub, t) == ReSubFrom(t, StrLower(t), StrLower(key), sub, 1)

\* where entry i goes: after the entries with a longer key and the earlier
\* entries with a key of the same length (the sort is stable)
PlaceByKeyLen(items, i) ==
    1 + Cardinality({j \in 1..Len(items) :
                        \/ Len(items[j][1]) > Len(items[i][1])
                        \/ Len(items[j][1]) = Len(items[i][1]) /\ j < i})

\* sorted(substitutions.items(), key=lambda x: len(x[0]), reverse=True)
SortedByKeyLen(items) ==
    [r \in 1..Len(items) |->
        items[CHOOSE i \in 1..Len(items) : PlaceByKeyLen(items, i) = r]]

\* line 532 for each member of the enum
sorted_substitutions ==
    [t \in Range(Transformations) |-> SortedByKeyLen(get_substitutions(t))]

\* handle_transformation.substitute_text, given sorted_substitutions: the
\* loop over the entries.  (The text after entry i is computed before entry
\* i + 1 is looked at; re.sub leaves an empty text empty.)
RECURSIVE SubstituteFrom(_, _, _)
SubstituteFrom(sorted, i, new_text) ==
    IF i > Len(sorted) \/ new_text = <<>> THEN new_text
    ELSE LET next == ReSub(sorted[i][1], sorted[i][2], new_text)
         IN  IF next = new_text
             THEN SubstituteFrom(sorted, i + 1, new_text)
             ELSE SubstituteFrom(sorted, i + 1, next)

substitute_text(sorted, text) ==
    SubstituteFrom(sorted, 1, text)

(***************************************************************************)
(* substitute_text on its own: the table of every substitution kind,       *)
(* sorted as line 532 sorts it, applied to each of its own keys and to a   *)
(* step text.                                                              *)
(***************************************************************************)
sMix_flour_and_bread ==
    <<"M", "i", "x", " ", "f", "l", "o", "u", "r", " ", "a", "n", "d", " ", "b", "r", "e", "a", "d">>

SubstitutionKinds ==
    {Transformations[k] : k \in {j \in 1..Len(Transformations) :
                                    get_substitutions(Transformations[j]) # <<>>}}

KeysOf(table) == {table[k][1] : k \in 1..Len(table)}

InitSubst ==
    /\ subTrans \in SubstitutionKinds
    /\ subIn \in KeysOf(get_substitutions(subTrans)) \cup {sMix_flour_and_bread}
    /\ subOut = NoneStr
    /\ IdleFrac
    /\ IdleScore /\ IdleHeap /\ IdleXref /\ IdleTrans /\ IdleParse

CallSubstituteText ==
    /\ subOut = NoneStr
    /\ subOut' = substitute_text(sorted_substitutions[subTrans], subIn)
    /\ UNCHANGED <<subTrans, subIn, notSubst>>

NextSubst == CallSubstituteText

SpecSubst == InitSubst /\ [][NextSubst]_vars

-----------------------------------------------------------------------------
(***************************************************************************)
(* handle_transformation                                                   *)
(***************************************************************************)
\* the objects a Recipe reaches
Reachable(r) ==
    (Range(r.ingredients) \cup Range(r.steps) \cup {r.tools, r.methods, r.other})
        \ {NoneId}

\* copy.copy of a list: the same objects
ShallowCopyList(h, ids) == [heap |-> h, ids |-> ids]

\* copy.deepcopy of a list of objects (each in the list once): a fresh copy
\* of every object, None kept in its place
DeepCopyList(h, ids) ==
    LET live == {k \in 1..Len(ids) : ids[k] # NoneId}
        fresh == FreshIds(DOMAIN h, Cardinality(live), 1)
        new == [k \in 1..Len(ids) |->
                  IF ids[k] = NoneId THEN NoneId
                  ELSE fresh[Cardinality({j \in live : j <= k})]]
    IN  [heap |-> h @@ [n \in {new[k] : k \in live} |->
                          h[ids[CHOOSE k \in live : new[k] = n]]],
         ids |-> new]

\* `if ingredient.quantity`: neither None nor Fraction(0)
QuantityPresent(q) == q # NoneFrac /\ q[1] # 0

\* quantity_change whose product is cut to a whole number
quantity_change_truncating(h, ids, factor) ==
    [id \in DOMAIN h |->
        IF id \in Range(ids) /\ QuantityPresent(h[id].quantity)
        THEN [h[id] EXCEPT !.quantity =
                 Frac((@[1] * factor[1]) \div (@[2] * factor[2]), 1)]
        ELSE h[id]]

\* quantity_change: factor is the int 2, or the float 0.5 turned into
\* Fraction(0.5).limit_denominator() = 1/2 at its first use; here the
\* Fraction either way
quantity_change(h, ids, factor) ==
    [id \in DOMAIN h |->
        IF id \in Range(ids) /\ QuantityPresent(h[id].quantity)
        THEN [h[id] EXCEPT !.quantity = FracMul(@, factor)]
        ELSE h[id]]

\* lines 524-529: DOUBLE and HALF
ScaleBranch(h, r, trans) ==
    LET factor == IF trans = "DOUBLE" THEN Frac(2, 1) ELSE Frac(1, 2)
        ci == DeepCopyList(h, r.ingredients)
        h1 == quantity_change(ci.heap, ci.ids, factor)
        cs == DeepCopyList(h1, r.steps)
    IN  [heap |-> cs.heap, ingredients |-> ci.ids, steps |-> cs.ids]

\* lines 530-552: the substitution tables
SubstituteBranch(h, r, trans) ==
    LET kept == SelectSeq(r.ingredients,
                          LAMBDA id : id # NoneId /\ h[id].name # <<>>)
        ci == DeepCopyList(h, kept)
        h1 == [id \in DOMAIN ci.heap |->
                 IF id \in Range(ci.ids)
                 THEN [ci.heap[id] EXCEPT !.name =
                          substitute_text(sorted_substitutions[trans], @)]
                 ELSE ci.heap[id]]
        cs == DeepCopyList(h1, r.steps)
        h2 == [id \in DOMAIN cs.heap |->
                 IF id \in Range(cs.ids)
                 THEN [cs.heap[id] EXCEPT !.text =
                          substitute_text(sorted_substitutions[trans], @)]
                 ELSE cs.heap[id]]
    IN  [heap |-> h2, ingredients |-> ci.ids, steps |-> cs.ids]

\* lines 554-560: the new Recipe; tools, methods and other are assigned, not
\* copied
handle_transformation(h, r, trans) ==
    LET b == IF trans \in {"DOUBLE", "HALF"}
             THEN ScaleBranch(h, r, trans)
             ELSE SubstituteBranch(h, r, trans)
    IN  [heap |-> b.heap,
         transformed |->
            [title |-> NameCapitalized[trans] \o <<" ">> \o r.title,
             ingredients |-> b.ingredients,
             steps |-> b.steps,
             tools |-> r.tools,
             methods |-> r.methods,
             other |-> r.other]]

(***************************************************************************)
(* The menu loop of main: any transformation, any number of times, each    *)
(* on the global recipe.  The Recipe built by the call before is no longer *)
(* referenced, and its objects are gone.                                   *)
(***************************************************************************)
MaxTransIngr == 2
MaxTransSteps == 1

schicken_breast_deveined ==
    <<"c", "h", "i", "c", "k", "e", "n", " ", "b", "r", "e", "a", "s", "t", ",", " ", "d", "e", "v", "e", "i", "n", "e", "d">>
sflour == <<"f", "l", "o", "u", "r">>
schicken_broth == <<"c", "h", "i", "c", "k", "e", "n", " ", "b", "r", "o", "t", "h">>
sflour_sifted == <<"f", "l", "o", "u", "r", " ", "(", "s", "i", "f", "t", "e", "d", ")">>
scup == <<"c", "u", "p">>
sPie == <<"P", "i", "e">>
sAdd_the_chicken_and_stir ==
    <<"A", "d", "d", " ", "t", "h", "e", " ", "c", "h", "i", "c", "k", "e", "n", " ", "a", "n", "d", " ", "s", "t", "i", "r">>
\* what parse_recipe may have put in recipe.ingredients: parsed lines (one
\* with no quantity, one with Fraction(0), one with an empty name) and None
TransPool ==
    {[Ingredient(<<>>, schicken_breast_deveined, Frac(1, 3)) EXCEPT !.unit = scup],
     Ingredient(<<>>, sflour, Frac(3, 2)),
     Ingredient(<<>>, schicken_broth, Frac(0, 1)),
     [Ingredient(<<>>, <<>>, NoneFrac) EXCEPT !.preparation = sflour_sifted],
     NoneIngr}

TransSteps == {sAdd_the_chicken_and_stir}

InitTrans ==
    /\ \E ingrs \in Str(TransPool, MaxTransIngr),
          texts \in Str(TransSteps, MaxTransSteps) :
          LET r == NewRecipe(sPie, ingrs, [j \in 1..Len(texts) |-> Step(texts[j])],
                             {"oven"}, {"bake"}, [description |-> sPie])
          IN  /\ heap = r.heap /\ recipe = r.recipe
              /\ recipe0 = Contents(r.heap, r.recipe)
    /\ transformed = NoRecipe /\ lastTrans = "none"
    /\ IdleScore /\ IdleXref /\ IdleParse /\ IdleFrac /\ IdleSubst

Transform(trans) ==
    LET live == Reachable(recipe)
        t == handle_transformation([id \in live |-> heap[id]], recipe, trans)
    IN  /\ heap' = t.heap
        /\ transformed' = t.transformed
        /\ lastTrans' = trans
        /\ UNCHANGED <<recipe, recipe0, notTrans>>

NextTrans == \E k \in 1..Len(Transformations) : Transform(Transformations[k])

SpecTrans == InitTrans /\ [][NextTrans]_vars

-----------------------------------------------------------------------------
(***************************************************************************)
(* main.py: parse_recipe on the global recipe, called any number of times, *)
(* each time on another page.  The page's JSON-LD is outside the program:  *)
(* the Ingredient (or None) that from_str gives for each raw line and the  *)
(* step texts are inputs.  update_methods_and_ingredients runs inside the  *)
(* call, one loop iteration at a time, by the actions above.               *)
(***************************************************************************)
\* main.py:15-38
COMMON_TOOLS ==
    <<
      \* "pan"
      <<"p", "a", "n">>,
      \* "saucepan"
      <<"s", "a", "u", "c", "e", "p", "a", "n">>,
      \* "skillet"
      <<"s", "k", "i", "l", "l", "e", "t">>,
      \* "grater"
      <<"g", "r", "a", "t", "e", "r">>,
      \* "whisk"
      <<"w", "h", "i", "s", "k">>,
      \* "knife"
      <<"k", "n", "i", "f", "e">>,
      \* "spatula"
      <<"s", "p", "a", "t", "u", "l", "a">>,
      \* "bowl"
      <<"b", "o", "w", "l">>,
      \* "oven"
      <<"o", "v", "e", "n">>,
      \* "mixer"
      <<"m", "i", "x", "e", "r">>,
      \* "peeler"
      <<"p", "e", "e", "l", "e", "r">>,
      \* "measuring cup"
      <<"m", "e", "a", "s", "u", "r", "i", "n", "g", " ", "c", "u", "p">>,
      \* "blender"
      <<"b", "l", "e", "n", "d", "e", "r">>,
      \* "microwave"
      <<"m", "i", "c", "r", "o", "w", "a", "v", "e">>,
      \* "cutting board"
      <<"c", "u", "t", "t", "i", "n", "g", " ", "b", "o", "a", "r", "d">>,
      \* "tongs"
      <<"t", "o", "n", "g", "s">>,
      \* "pressure cooker"
      <<"p", "r", "e", "s", "s", "u", "r", "e", " ", "c", "o", "o", "k", "e", "r">>,
      \* "baking sheet"
      <<"b", "a", "k", "i", "n", "g", " ", "s", "h", "e", "e", "t">>,
      \* "baking dish"
      <<"b", "a", "k", "i", "n", "g", " ", "d", "i", "s", "h">>,
      \* "baking tray"
      <<"b", "a", "k", "i", "n", "g", " ", "t", "r", "a", "y">>,
      \* "pot"
      <<"p", "o", "t">>,
      \* "wok"
      <<"w", "o", "k">>
    >>

MaxPageIngr == 2
MaxPageSteps == 2

sBake_in_the_OVEN ==
    <<"B", "a", "k", "e", " ", "i", "n", " ", "t", "h", "e", " ", "O", "V", "E", "N">>
sStir_the_saucepan ==
    <<"S", "t", "i", "r", " ", "t", "h", "e", " ", "s", "a", "u", "c", "e", "p", "a", "n">>

\* Ingredient.from_str of a raw line: an Ingredient, or None for a line that
\* is not food
PagePool == {Ingredient(<<>>, sa, NoneFrac), NoneIngr}

PageTexts == {sBake_in_the_OVEN, sStir_the_saucepan}

\* Ingredient.from_str of a noun chunk of a step
ChunkPool == {Ingredient(<<>>, sa, NoneFrac), Ingredient(<<>>, sb, NoneFrac), NoneIngr}

\* main.py:12: the global recipe is Recipe(), nothing parsed yet
InitRecipe ==
    /\ IdleHeap
    /\ IdleScore /\ IdleXref /\ IdleTrans /\ IdleParse /\ IdleFrac /\ IdleSubst

\* re.search(rf"\\b{tool}\\b", text, re.IGNORECASE) finds a match
ToolFound(tool, text) ==
    \E p \in 1..Len(text) : MatchAt(text, StrLower(text), StrLower(tool), p)

\* the tools of COMMON_TOOLS that lines 279-280 find in a text
ToolsIn(text) ==
    {COMMON_TOOLS[k] : k \in {j \in 1..Len(COMMON_TOOLS) : ToolFound(COMMON_TOOLS[j], text)}}

\* lines 262-275 and, entering update_methods_and_ingredients, line 346:
\* the title and description are written into the global recipe, the
\* ingredient and step lists are replaced by lists of fresh objects (None
\* where from_str gave None), recipe.methods becomes a new set.  The tools
\* set and the `other` dict of the global recipe stay the objects they were.
ParseRecipe(title, des, ingrs, texts) ==
    /\ xpc \in {"idle", "returned"}
    /\ LET kept == {recipe.tools, recipe.other}
           objs == SelectSeq(ingrs, LAMBDA x : x # NoneIngr)
                   \o [j \in 1..Len(texts) |-> Step(texts[j])]
                   \o <<SetObj({})>>
           ni == Len(objs) - Len(texts) - 1
           ns == Len(texts)
           fresh == FreshIds(kept, Len(objs), 1)
       IN  /\ heap' = [id \in kept \cup Range(fresh) |->
                          IF id = recipe.other
                          THEN DictObj([description |-> des])
                          ELSE IF id = recipe.tools THEN heap[id]
                          ELSE objs[CHOOSE k \in 1..Len(objs) : fresh[k] = id]]
           /\ recipe' = [recipe EXCEPT
                            !.title = title,
                            !.ingredients =
                                [i \in 1..Len(ingrs) |->
                                    IF ingrs[i] = NoneIngr THEN NoneId
                                    ELSE fresh[Rank(ingrs, i)]],
                            !.steps = [j \in 1..ns |-> fresh[ni + j]],
                            !.methods = fresh[ni + ns + 1]]
           /\ xpc' = IF ns = 0 THEN "done" ELSE "step"
    /\ xstep' = 0 /\ xcand' = NoneIngr /\ xind' = -1
    /\ UNCHANGED <<xerr, notXref>>

\* lines 278-284: every tool found in a step's text goes into the step's and
\* the recipe's tools set; parse_recipe returns True
ToolsLoop ==
    /\ xpc = "done"
    /\ heap' = [id \in DOMAIN heap |->
                   IF id \in Range(recipe.steps)
                   THEN [heap[id] EXCEPT !.tools = @ \cup ToolsIn(heap[id].text)]
                   ELSE IF id = recipe.tools
                   THEN [heap[id] EXCEPT !.elems =
                            @ \cup UNION {ToolsIn(heap[recipe.steps[j]].text) :
                                             j \in 1..Len(recipe.steps)}]
                   ELSE heap[id]]
    /\ xpc' = "returned"
    /\ UNCHANGED <<recipe, xstep, xcand, xind, xerr, notXref>>

NextRecipe ==
    \/ \E ingrs \in Str(PagePool, MaxPageIngr), texts \in Str(PageTexts, MaxPageSteps) :
          ParseRecipe(sPie, sPie, ingrs, texts)
    \/ \E verbs \in SUBSET MethodVerbs : XrefStep(verbs)
    \/ \E ingr \in ChunkPool : XrefChunk(ingr)
    \/ XrefEndStep
    \/ ToolsLoop

SpecRecipe == InitRecipe /\ [][NextRecipe]_vars

-----------------------------------------------------------------------------
(***************************************************************************)
(* util.py: str_to_fraction.  A character outside ASCII is written by its  *)
(* code point: "U+2044" is the fraction slash, "U+00BD" the vulgar half.   *)
(***************************************************************************)
\* unicodedata.normalize("NFKD", c) for one character
NFKDChar(c) ==
    IF c = "U+00BD" THEN <<"1", "U+2044", "2">> ELSE <<c>>

\* str.maketrans({"U+2044": "/"})
TranslateChar(c) == IF c = "U+2044" THEN "/" ELSE c

RECURSIVE Normalize(_)
Normalize(data) ==
    IF data = <<>> THEN <<>>
    ELSE LET d == NFKDChar(Head(data))
         IN  [k \in 1..Len(d) |-> TranslateChar(d[k])] \o Normalize(Tail(data))

DigitValue(c) == CHOOSE v \in 0..9 : <<"0", "1", "2", "3", "4", "5", "6", "7", "8", "9">>[v + 1] = c

IsDigits(s) == s # <<>> /\ \A k \in 1..Len(s) : s[k] \in Digits

RECURSIVE ToInt(_)
ToInt(s) == IF s = <<>> THEN 0 ELSE 10 * ToInt(SubSeq(s, 1, Len(s) - 1)) + DigitValue(s[Len(s)])

\* Fraction(val) for a string of digits and "/": digits, or digits "/"
\* digits; NoneFrac where Fraction raises (ValueError, ZeroDivisionError)
FractionOfStr(val) ==
    IF IsDigits(val) THEN Frac(ToInt(val), 1)
    ELSE LET slashes == {k \in 1..Len(val) : val[k] = "/"}
         IN  IF Cardinality(slashes) # 1 THEN NoneFrac
             ELSE LET k == CHOOSE k \in slashes : TRUE
                      num == SubSeq(val, 1, k - 1)
                      den == SubSeq(val, k + 1, Len(val))
                  IN  IF IsDigits(num) /\ IsDigits(den) /\ ToInt(den) # 0
                      THEN Frac(ToInt(num), ToInt(den))
                      ELSE NoneFrac

\* lines 171-175: a numerator above 10 over a denominator above 1 is read
\* as a whole part run into the numerator
Unmash(f) ==
    IF f[2] > 1 /\ f[1] > 10
    THEN Frac((f[1] % 10) + (f[1] \div 10) * f[2], f[2])
    ELSE f

RECURSIVE SumTokens(_, _)
SumTokens(vals, sum) ==
    IF vals = <<>> THEN sum
    ELSE LET f == FractionOfStr(Head(vals))
         IN  IF f = NoneFrac THEN SumTokens(Tail(vals), sum)
             ELSE SumTokens(Tail(vals), FracAdd(sum, Unmash(f)))

str_to_fraction(data) == SumTokens(Split(Normalize(data)), Frac(0, 1))

(***************************************************************************)
(* util.py: fraction_to_str, for the Fractions str_to_fraction gives from  *)
(* digits, "/" and spaces (none of them negative).                         *)
(***************************************************************************)
\* str(n) of an int n >= 0
RECURSIVE IntStr(_)
IntStr(n) ==
    LET d == <<"0", "1", "2", "3", "4", "5", "6", "7", "8", "9">>[(n % 10) + 1]
    IN  IF n < 10 THEN <<d>> ELSE IntStr(n \div 10) \o <<d>>

\* str(Fraction): "n" when the denominator is 1, else "n/d"
FractionStr(f) ==
    IF f[2] = 1 THEN IntStr(f[1]) ELSE IntStr(f[1]) \o <<"/">> \o IntStr(f[2])

\* the mixed-number branch left out: always str(frac)
fraction_to_str_improper(frac) == FractionStr(frac)

fraction_to_str(frac) ==
    IF frac[2] = 1 THEN IntStr(frac[1])
    ELSE IF frac[1] >= frac[2]
    THEN IntStr(frac[1] \div frac[2]) \o <<" ">>
         \o FractionStr(Frac(frac[1] % frac[2], frac[2]))
    ELSE FractionStr(frac)

(***************************************************************************)
(* A quantity text parsed and formatted back: every text of digits, "/"    *)
(* and spaces up to a length.                                              *)
(***************************************************************************)
MaxQLen == 5

QChars == {"0", "1", "2", "3", "/", " "}

InitFrac ==
    /\ qin \in Str(QChars, MaxQLen)
    /\ qfrac = NoneFrac /\ qout = NoneStr
    /\ IdleSubst
    /\ IdleScore /\ IdleHeap /\ IdleXref /\ IdleTrans /\ IdleParse

CallStrToFraction ==
    /\ qfrac = NoneFrac
    /\ qfrac' = str_to_fraction(qin)
    /\ UNCHANGED <<qin, qout, notFrac>>

CallFractionToStr ==
    /\ qfrac # NoneFrac /\ qout = NoneStr
    /\ qout' = fraction_to_str(qfrac)
    /\ UNCHANGED <<qin, qfrac, notFrac>>

NextFrac == CallStrToFraction \/ CallFractionToStr

SpecFrac == InitFrac /\ [][NextFrac]_vars

-----------------------------------------------------------------------------
(***************************************************************************)
(* recipe.py: Ingredient.from_str.  The tagger (spaCy) and the lexical     *)
(* classifier (WordNet) are outside the program: a token carries the       *)
(* tagger's answers, and the classifier is a fixed table of words.         *)
(***************************************************************************)
\* a spaCy token: its text, pos_, whether dep_ is ROOT, whether its head
\* comes before it (head.i < i), and whether a space follows it
Token(text, pos, root, headBefore, space) ==
    [text |-> text, pos |-> pos, root |-> root, headBefore |-> headBefore,
     space |-> space]

\* NounType.from_str(word) holds FOOD / MEASURE
FoodWords ==
    {<<"f", "l", "o", "u", "r">>,
     <<"c", "l", "o", "v", "e">>}
MeasureWords ==
    {<<"c", "u", "p", "s">>,
     <<"c", "l", "o", "v", "e">>}

IsFood(text) == text \in FoodWords
IsMeasure(text) == text \in MeasureWords

\* the line a doc was made from
RECURSIVE LineOf(_)
LineOf(doc) ==
    IF doc = <<>> THEN <<>>
    ELSE Head(doc).text \o (IF Head(doc).space THEN <<" ">> ELSE <<>>)
         \o LineOf(Tail(doc))

\* doc[i].idx, i counted from 0; for i = len(doc) the length of the line
TokenIdx(doc, i) == Len(LineOf(SubSeq(doc, 1, i)))

\* name[a:b]
Slice(line, a, b) == SubSeq(line, a + 1, b)

\* str.strip(chars)
RECURSIVE StripChars(_, _)
StripChars(t, chars) ==
    IF t = <<>> THEN t
    ELSE IF t[1] \in chars THEN StripChars(Tail(t), chars)
    ELSE IF t[Len(t)] \in chars THEN StripChars(SubSeq(t, 1, Len(t) - 1), chars)
    ELSE t

Strip(t) == StripChars(t, {" "})
StripPunct(t) == StripChars(t, {" ", ".", ",", ";", ":", "!", "-"})

NameTags == {"NOUN", "PROPN", "ADJ"}

\* lines 60-68: the first token that is not a number ends the quantity
QuantityStep(doc, line) ==
    LET stops == {ind \in 0..(Len(doc) - 1) :
                     str_to_fraction(doc[ind + 1].text) = Frac(0, 1)}
    IN  IF stops = {}
        THEN [i |-> 0, idx |-> 0, quantity |-> NoneFrac]
        ELSE LET i == CHOOSE ind \in stops : \A o \in stops : ind <= o
             IN  [i |-> i, idx |-> TokenIdx(doc, i),
                  quantity |-> str_to_fraction(Strip(Slice(line, 0, TokenIdx(doc, i))))]

\* an exhaustive search in place of the single lookahead: a token at depth
\* 0 that is not a MEASURE does not end the loop
RECURSIVE UnitLoop_exhaustive(_, _, _, _, _)
UnitLoop_exhaustive(doc, line, ind, parens, st) ==
    IF ind >= Len(doc) - 1 THEN st
    ELSE IF doc[ind + 1].text = <<"(">>
         THEN UnitLoop_exhaustive(doc, line, ind + 1, parens + 1, st)
    ELSE IF doc[ind + 1].text = <<")">>
         THEN UnitLoop_exhaustive(doc, line, ind + 1, parens - 1, st)
    ELSE IF parens = 0 /\ IsMeasure(doc[ind + 1].text)
         THEN [i |-> ind + 1, idx |-> TokenIdx(doc, ind + 1),
               unit |-> Strip(Slice(line, st.idx, TokenIdx(doc, ind + 1)))]
    ELSE UnitLoop_exhaustive(doc, line, ind + 1, parens, st)

\* lines 70-82: parentheses and what they hold are passed over; the first
\* other token at depth 0 is the unit if it is a MEASURE, and ends the loop
\* either way; the last token is never looked at
RECURSIVE UnitLoop(_, _, _, _, _)
UnitLoop(doc, line, ind, parens, st) ==
    IF ind >= Len(doc) - 1 THEN st
    ELSE IF doc[ind + 1].text = <<"(">> THEN UnitLoop(doc, line, ind + 1, parens + 1, st)
    ELSE IF doc[ind + 1].text = <<")">> THEN UnitLoop(doc, line, ind + 1, parens - 1, st)
    ELSE IF parens = 0
         THEN IF IsMeasure(doc[ind + 1].text)
              THEN [i |-> ind + 1, idx |-> TokenIdx(doc, ind + 1),
                    unit |-> Strip(Slice(line, st.idx, TokenIdx(doc, ind + 1)))]
              ELSE st
         ELSE UnitLoop(doc, line, ind + 1, parens, st)

\* lines 84-90: the first NOUN or PROPN ends the descriptors
DescriptorsStep(doc, line, st) ==
    LET nouns == {ind \in st.i..(Len(doc) - 1) : doc[ind + 1].pos \in {"NOUN", "PROPN"}}
    IN  IF nouns = {}
        THEN [i |-> st.i, idx |-> st.idx, descriptors |-> <<>>]
        ELSE LET i == CHOOSE ind \in nouns : \A o \in nouns : ind <= o
             IN  [i |-> i, idx |-> TokenIdx(doc, i),
                  descriptors |-> Strip(Slice(line, st.idx, TokenIdx(doc, i)))]

\* line 105-110: the token at ind ends the name
EndsName(tok, post_punct) ==
    \/ /\ tok.pos \notin NameTags
       /\ ~tok.root
       /\ tok.text # <<",">>
    \/ /\ post_punct
       /\ (tok.pos \notin NameTags \/ tok.headBefore)

\* lines 92-123: the name, and whether a FOOD token was met
RECURSIVE NameLoop(_, _, _, _, _, _)
NameLoop(doc, line, ind, parens, post_punct, st) ==
    IF ind >= Len(doc) THEN st
    ELSE LET tok == doc[ind + 1]
         IN  IF tok.text = <<"(">> THEN NameLoop(doc, line, ind + 1, parens + 1, post_punct, st)
             ELSE IF tok.text = <<")">> THEN NameLoop(doc, line, ind + 1, parens - 1, post_punct, st)
             ELSE IF parens > 0 THEN NameLoop(doc, line, ind + 1, parens, post_punct, st)
             ELSE IF EndsName(tok, post_punct)
                  THEN [st EXCEPT !.i = ind, !.idx = TokenIdx(doc, ind),
                                  !.name = StripPunct(Slice(line, st.idx, TokenIdx(doc, ind)))]
                  ELSE LET is_food == st.is_food \/ IsFood(tok.text)
                           st1 == IF is_food /\ ind = Len(doc) - 1
                                  THEN [st EXCEPT !.is_food = is_food, !.i = ind + 1,
                                                  !.name = StripPunct(Slice(line, st.idx, Len(line)))]
                                  ELSE [st EXCEPT !.is_food = is_food]
                       IN  NameLoop(doc, line, ind + 1, parens, tok.text = <<",">>, st1)

\* Ingredient.from_str of the line LineOf(doc), tagged as doc
from_str(doc) ==
    LET line == LineOf(doc)
        q == QuantityStep(doc, line)
        u == UnitLoop(doc, line, q.i, 0, [i |-> q.i, idx |-> q.idx, unit |-> NoneStr])
        d == DescriptorsStep(doc, line, u)
        n == NameLoop(doc, line, d.i, 0, FALSE,
                      [i |-> d.i, idx |-> d.idx, name |-> <<>>, is_food |-> FALSE])
        ingr == [type |-> "Ingredient", name |-> n.name, quantity |-> q.quantity,
                 unit |-> u.unit, descriptors |-> d.descriptors,
                 preparation |-> IF n.i < Len(doc)
                                 THEN StripPunct(Slice(line, n.idx, Len(line)))
                                 ELSE <<>>,
                 used |-> {}]
    IN  IF n.is_food THEN ingr ELSE NoneIngr

(***************************************************************************)
(* from_str on its own: every tagged line of up to MaxTokens tokens.       *)
(***************************************************************************)
MaxTokens == 4

Tokens ==
    {Token(<<"2">>, "NUM", FALSE, FALSE, TRUE),
     Token(<<"c", "u", "p", "s">>, "NOUN", FALSE, FALSE, TRUE),
     Token(<<"f", "l", "o", "u", "r">>, "NOUN", FALSE, FALSE, TRUE),
     Token(<<"c", "l", "o", "v", "e">>, "NOUN", FALSE, TRUE, TRUE),
     Token(<<"f", "r", "e", "s", "h">>, "ADJ", FALSE, FALSE, TRUE),
     Token(<<"s", "i", "f", "t", "e", "d">>, "VERB", FALSE, TRUE, FALSE),
     Token(<<"m", "i", "x">>, "VERB", TRUE, FALSE, TRUE),
     Token(<<"(">>, "PUNCT", FALSE, TRUE, FALSE),
     Token(<<")">>, "PUNCT", FALSE, TRUE, TRUE),
     Token(<<",">>, "PUNCT", FALSE, TRUE, TRUE)}

InitParse ==
    /\ tagged \in Str(Tokens, MaxTokens)
    /\ parsed = NoneIngr /\ called = FALSE
    /\ IdleScore /\ IdleHeap /\ IdleXref /\ IdleTrans /\ IdleFrac /\ IdleSubst

CallFromStr ==
    /\ ~called
    /\ called' = TRUE
    /\ parsed' = from_str(tagged)
    /\ UNCHANGED <<tagged, notParse>>

NextParse == CallFromStr

SpecParse == InitParse /\ [][NextParse]_vars

-----------------------------------------------------------------------------
(***************************************************************************)
(* The claims about the Ingredient Matcher.                                *)
(***************************************************************************)
\* the indices (0-based) of the recipe ingredients that are objects
IngrIndices == {i \in 0..(Len(recipe.ingredients) - 1) : recipe.ingredients[i + 1] # NoneId}

\* the score of the current candidate against recipe ingredient i
ScoreOf(i) == match_score(Label(xcand), Label(heap[recipe.ingredients[i + 1]]))

AboveThreshold(i) == FracGT(ScoreOf(i), Frac(1, 2))

\* i attains the maximum score and no smaller index does
FirstBest(i) ==
    /\ i \in IngrIndices
    /\ \A j \in IngrIndices : ~FracGT(ScoreOf(j), ScoreOf(i))
    /\ \A j \in IngrIndices : j < i => FracGT(ScoreOf(i), ScoreOf(j))

\* C2: when some recipe ingredient scores above 0.5 against the candidate,
\* find_ingredient returns the smallest index whose score is the maximum.
C2_ReturnsFirstBest ==
    (xcand # NoneIngr /\ \E i \in IngrIndices : AboveThreshold(i))
        => FirstBest(xind)

\* C3: when no recipe ingredient scores strictly above 0.5 against the
\* candidate (a best score of exactly 0.5 included), find_ingredient
\* returns -1 and the phrase is not linked.
C3_NoMatchAtOrBelowHalf ==
    (xcand # NoneIngr /\ \A i \in IngrIndices : ~AboveThreshold(i))
        => xind = -1

\* C4: no exception leaves update_methods_and_ingredients: every noun
\* phrase is linked or skipped and the loop goes on.
C4_NoExceptionPropagates == xerr = "none" /\ xpc # "raised"

\* C9: match_score is symmetric: match_score(a, b) = match_score(b, a).
C9_MatchScoreSymmetric ==
    (score12 # NoneFrac /\ score21 # NoneFrac) => score12 = score21

\* the words of a label, as the rule compares them
WordsOf(a) == Split(StrLower(a))

\* how many words of a (repetitions counted) occur among the words of b
SharedWords(a, b) ==
    Cardinality({k \in 1..Len(WordsOf(a)) :
                    \E j \in 1..Len(WordsOf(b)) : WordsOf(b)[j] = WordsOf(a)[k]})

\* the priority rule: identical, else substring, else the word overlap
PriorityRule(a, b) ==
    IF a = b THEN Frac(2, 1)
    ELSE IF Contains(a, b) \/ Contains(b, a) THEN Frac(1, 1)
    ELSE Frac(SharedWords(a, b), Max(Len(WordsOf(a)), Len(WordsOf(b))) + 1)

IsOverlapCase(a, b) == a # b /\ ~Contains(a, b) /\ ~Contains(b, a)

\* C10 as stated: the priority rule for every pair of strings, the empty
\* string included (2 if identical, else 1 if one contains the other, else
\* the word overlap ratio, which is below 1).
C10_PriorityRuleEveryPair ==
    score12 # NoneFrac =>
        /\ score12 = PriorityRule(name1, name2)
        /\ IsOverlapCase(name1, name2) => FracGT(Frac(1, 1), score12)

\* C10 amended: the score is 0 when either string is empty; for two
\* non-empty strings it follows the priority rule.
C10_PriorityRuleNonEmpty ==
    score12 # NoneFrac =>
        IF name1 = <<>> \/ name2 = <<>>
        THEN score12 = Frac(0, 1)
        ELSE /\ score12 = PriorityRule(name1, name2)
             /\ IsOverlapCase(name1, name2) => FracGT(Frac(1, 1), score12)

\* two non-empty labels scored by word overlap: "a b" against "b a" is 2/3
C10_Witness ==
    /\ score12 = Frac(2, 3)
    /\ name1 # <<>> /\ name2 # <<>> /\ IsOverlapCase(name1, name2)

\* C11: two strings with no whitespace-separated word in common (compared
\* case-insensitively) score 0, also when one string occurs inside a word
\* of the other.
C11_DisjointWordsScoreZero ==
    (score12 # NoneFrac /\ SharedWords(name1, name2) = 0) => score12 = Frac(0, 1)

-----------------------------------------------------------------------------
(***************************************************************************)
(* The claims about the Transformation Engine.                             *)
(***************************************************************************)
Scaling == {"DOUBLE", "HALF"}
Transformed == lastTrans # "none"

\* C5: handle_transformation never mutates its source recipe: after any
\* sequence of transformations the source's title, ingredient list (every
\* field of every ingredient) and step list are what they were before the
\* first one.
C5_SourceUnchanged == Contents(heap, recipe) = recipe0

\* a DOUBLE has scaled a copy of a 1/3 ingredient to 2/3 and the source
\* still holds 1/3
C5_Witness ==
    /\ lastTrans = "DOUBLE"
    /\ \E i \in 1..Len(recipe.ingredients) :
          /\ recipe.ingredients[i] # NoneId
          /\ heap[recipe.ingredients[i]].quantity = Frac(1, 3)
          /\ heap[transformed.ingredients[i]].quantity = Frac(2, 3)

\* C6: the transformed recipe holds its own copies of tools, methods and
\* other: they are objects distinct from the source's.
C6_OwnContainers ==
    Transformed =>
        /\ transformed.tools # recipe.tools
        /\ transformed.methods # recipe.methods
        /\ transformed.other # recipe.other

\* q2 is exactly num/den times q1, in lowest terms
ExactlyTimes(q2, q1, num, den) ==
    /\ q2[1] * q1[2] * den = num * q1[1] * q2[2]
    /\ q2[2] > 0
    /\ GCD(Abs(q2[1]), q2[2]) = 1

\* C7: DOUBLE and HALF keep the number and order of the ingredients, give
\* every ingredient with a present (non-zero) quantity q exactly 2*q or
\* q/2, leave every other ingredient field alone, and leave every step
\* text alone.
C7_ScalingExact ==
    lastTrans \in Scaling =>
        /\ Len(transformed.ingredients) = Len(recipe.ingredients)
        /\ \A i \in 1..Len(recipe.ingredients) :
              LET sid == recipe.ingredients[i]
                  tid == transformed.ingredients[i]
              IN  IF sid = NoneId THEN tid = NoneId
                  ELSE /\ tid # NoneId
                       /\ [heap[tid] EXCEPT !.quantity = heap[sid].quantity] = heap[sid]
                       /\ IF QuantityPresent(heap[sid].quantity)
                          THEN IF lastTrans = "DOUBLE"
                               THEN ExactlyTimes(heap[tid].quantity, heap[sid].quantity, 2, 1)
                               ELSE ExactlyTimes(heap[tid].quantity, heap[sid].quantity, 1, 2)
                          ELSE heap[tid].quantity = heap[sid].quantity
        /\ Len(transformed.steps) = Len(recipe.steps)
        /\ \A j \in 1..Len(recipe.steps) :
              heap[transformed.steps[j]].text = heap[recipe.steps[j]].text

\* a HALF of 3/2 gave 3/4 and a step text was carried over
C7_Witness ==
    /\ lastTrans = "HALF"
    /\ Len(transformed.steps) > 0
    /\ \E i \in 1..Len(recipe.ingredients) :
          /\ recipe.ingredients[i] # NoneId
          /\ heap[recipe.ingredients[i]].quantity = Frac(3, 2)
          /\ heap[transformed.ingredients[i]].quantity = Frac(3, 4)

\* the qualifier words the spec names
QualifierWords ==
    {<<"d", "e", "v", "e", "i", "n", "e", "d">>,
     <<"b", "o", "n", "e", "d">>}

\* w occurs in t as a whole word
HasWord(t, w) == \E p \in 1..Len(t) : MatchAt(t, StrLower(t), w, p)

\* some key of the table occurs in t
KeyOccurs(table, t) == \E k \in 1..Len(table) : HasWord(t, StrLower(table[k][1]))

\* t without its trailing spaces
RECURSIVE RStrip(_)
RStrip(t) ==
    IF t # <<>> /\ t[Len(t)] = " " THEN RStrip(SubSeq(t, 1, Len(t) - 1)) ELSE t

EndsWith(t, w) == Len(t) >= Len(w) /\ SubSeq(t, Len(t) - Len(w) + 1, Len(t)) = w

\* no qualifier word, no trailing conjunction or comma, no doubled space
Cleaned(t) ==
    /\ \A w \in QualifierWords : ~HasWord(t, w)
    /\ ~EndsWith(RStrip(t), <<",">>)
    /\ ~(HasWord(RStrip(t), <<"a", "n", "d">>) /\ EndsWith(StrLower(RStrip(t)), <<"a", "n", "d">>))
    /\ \A p \in 1..(Len(t) - 1) : ~(t[p] = " " /\ t[p + 1] = " ")

\* the source ingredients a substitution keeps, in order
KeptIngredients ==
    SelectSeq(recipe.ingredients, LAMBDA id : id # NoneId /\ heap[id].name # <<>>)

\* C8: in a substitution transformation a name or step text to which table
\* entries were applied comes out with the qualifier words stripped, no
\* dangling trailing conjunction or comma and no repeated whitespace.
C8_SubstitutionCleansText ==
    (Transformed /\ lastTrans \notin Scaling) =>
        /\ \A i \in 1..Len(transformed.ingredients) :
              KeyOccurs(get_substitutions(lastTrans), heap[KeptIngredients[i]].name)
                  => Cleaned(heap[transformed.ingredients[i]].name)
        /\ \A j \in 1..Len(transformed.steps) :
              KeyOccurs(get_substitutions(lastTrans), heap[recipe.steps[j]].text)
                  => Cleaned(heap[transformed.steps[j]].text)

\* the replacement the table gives for a key
ReplacementOf(table, key) ==
    table[CHOOSE k \in 1..Len(table) : table[k][1] = key][2]

\* C17: substitution is longest-key-first and single-pass: a text that is a
\* key of the table comes out as that key's replacement, not rewritten by a
\* shorter entry applied later ("whole wheat flour" gives "almond flour").
C17_KeyGivesItsReplacement ==
    (subOut # NoneStr /\ subIn \in KeysOf(get_substitutions(subTrans))) =>
        subOut = ReplacementOf(get_substitutions(subTrans), subIn)

-----------------------------------------------------------------------------
(***************************************************************************)
(* The claims about the Ingredient Segmenter.                              *)
(***************************************************************************)
\* C1: every Ingredient that from_str returns has a non-empty name, and a
\* token classified FOOD lies in that name.
C1_ReturnedNameHasFood ==
    (called /\ parsed # NoneIngr) =>
        /\ parsed.name # <<>>
        /\ \E k \in 1..Len(tagged) :
              IsFood(tagged[k].text) /\ Contains(parsed.name, tagged[k].text)

\* the parenthesis depth at token ind (0-based) of a scan begun at from
DepthAt(doc, from, ind) ==
    Cardinality({k \in from..(ind - 1) : doc[k + 1].text = <<"(">>})
    - Cardinality({k \in from..(ind - 1) : doc[k + 1].text = <<")">>})

\* the tokens at depth 0 that are no parenthesis, the last token left out
AtDepthZero(doc, from) ==
    {ind \in from..(Len(doc) - 2) :
        /\ doc[ind + 1].text \notin {<<"(">>, <<")">>}
        /\ DepthAt(doc, from, ind) = 0}

\* C16: the unit scan looks at one token only, the first one at parenthesis
\* depth 0 after the quantity and never the last of the line: if it is a
\* MEASURE the unit is the text from the quantity boundary to the start of
\* the token after it, otherwise the unit is absent, whatever comes later.
C16_UnitSingleLookahead ==
    (called /\ parsed # NoneIngr) =>
        LET line == LineOf(tagged)
            q == QuantityStep(tagged, line)
            at0 == AtDepthZero(tagged, q.i)
        IN  IF at0 = {} THEN parsed.unit = NoneStr
            ELSE LET first == CHOOSE ind \in at0 : \A o \in at0 : ind <= o
                 IN  IF IsMeasure(tagged[first + 1].text)
                     THEN /\ first + 2 <= Len(tagged)
                          /\ parsed.unit = Strip(Slice(line, q.idx, TokenIdx(tagged, first + 1)))
                     ELSE parsed.unit = NoneStr

\* the unit of "() cups flour ..." was found behind the parentheses
C16_Witness ==
    /\ called /\ parsed # NoneIngr
    /\ Len(tagged) >= 4
    /\ tagged[1].text = <<"(">> /\ tagged[2].text = <<")">>
    /\ parsed.unit = <<"(", ")", " ", "c", "u", "p", "s">>

-----------------------------------------------------------------------------
(***************************************************************************)
(* The claims about parse_recipe.                                          *)
(***************************************************************************)
\* C12: after parse_recipe has built the ingredient list, the list holds no
\* absent (None) entry, whatever the raw lines were.
C12_NoAbsentIngredient ==
    xpc # "idle" => \A i \in 1..Len(recipe.ingredients) : recipe.ingredients[i] # NoneId

\* the union of a set-valued field over the current steps
StepsUnion(field) ==
    UNION {heap[recipe.steps[j]][field] : j \in 1..Len(recipe.steps)}

\* C13: after every successful parse_recipe call, the first or a later one,
\* recipe.tools is the union of step.tools and recipe.methods the union of
\* step.methods over the current steps.
C13_RecipeSetsAreStepUnions ==
    xpc = "returned" =>
        /\ heap[recipe.tools].elems = StepsUnion("tools")
        /\ heap[recipe.methods].elems = StepsUnion("methods")

-----------------------------------------------------------------------------
(***************************************************************************)
(* The claims about quantities.                                            *)
(***************************************************************************)
\* the text is one token: digits, "/", digits, with at least two digits
\* before the "/"
IsMashedToken(t) ==
    \E k \in 3..(Len(t) - 1) :
        /\ t[k] = "/"
        /\ IsDigits(SubSeq(t, 1, k - 1))
        /\ IsDigits(SubSeq(t, k + 1, Len(t)))

SlashAt(t) == CHOOSE k \in 1..Len(t) : t[k] = "/"
\* the whole part N, the numerator digit M and the denominator D of a
\* mashed token
MashedN(t) == ToInt(SubSeq(t, 1, SlashAt(t) - 2))
MashedM(t) == DigitValue(t[SlashAt(t) - 1])
MashedD(t) == ToInt(SubSeq(t, SlashAt(t) + 1, Len(t)))
\* the same number written as two tokens, "N M/D"
Spaced(t) ==
    SubSeq(t, 1, SlashAt(t) - 2) \o <<" ">> \o SubSeq(t, SlashAt(t) - 1, Len(t))

\* C14: a token made of the digits of N >= 1, a digit M, "/" and D > 1
\* parses to exactly N + M/D, the value of the two-token text "N M/D".
C14_MashedMixedNumber ==
    (qfrac # NoneFrac /\ IsMashedToken(qin) /\ MashedN(qin) >= 1 /\ MashedD(qin) > 1) =>
        /\ qfrac = Frac(MashedN(qin) * MashedD(qin) + MashedM(qin), MashedD(qin))
        /\ qfrac = str_to_fraction(Spaced(qin))

\* the text is str(n) of an integer n >= 0
IsIntStr(t) == IsDigits(t) /\ IntStr(ToInt(t)) = t

\* the text is "w 1/2" with w = str of an integer >= 1
IsHalfStr(t) ==
    /\ Len(t) >= 5
    /\ SubSeq(t, Len(t) - 3, Len(t)) = <<" ", "1", "/", "2">>
    /\ IsIntStr(SubSeq(t, 1, Len(t) - 4))
    /\ ToInt(SubSeq(t, 1, Len(t) - 4)) >= 1

\* C15: str(n) parses and formats back to str(n) for every integer n >= 0;
\* "w 1/2" with w >= 1 parses to exactly w + 1/2 and formats back to
\* "w 1/2".
C15_QuantityRoundTrip ==
    /\ (qfrac # NoneFrac /\ IsIntStr(qin)) => qfrac = Frac(ToInt(qin), 1)
    /\ (qfrac # NoneFrac /\ IsHalfStr(qin)) =>
            qfrac = Frac(2 * ToInt(SubSeq(qin, 1, Len(qin) - 4)) + 1, 2)
    /\ (qout # NoneStr /\ (IsIntStr(qin) \/ IsHalfStr(qin))) => qout = qin

\* "1 1/2" was parsed to 3/2 and formatted back to "1 1/2"
C15_Witness ==
    /\ qin = <<"1", " ", "1", "/", "2">>
    /\ qfrac = Frac(3, 2)
    /\ qout = qin

=============================================================================
